---- MODULE Spec2Model ----
(***************************************************************************)
(* Model of deepseek_proxy.py: a local forwarding proxy that normalises    *)
(* the JSON body of a request (strip empty "tools", flatten                *)
(* messages[].content, inject default parameters), forwards it upstream    *)
(* with a forced Authorization header and strips empty "tools" from the    *)
(* JSON response.                                                          *)
(*                                                                         *)
(* Python values are modelled as follows.                                  *)
(*   str / bytes  a sequence of tokens (short pieces of text)              *)
(*   JSON value   a pair <<tag, payload>>:                                 *)
(*                  <<"null", <<>>>>           None                        *)
(*                  <<"bool", "true">>         True / False                *)
(*                  <<"num",  "0.7">>          a number, by its literal    *)
(*                  <<"str",  tokens>>         a str                       *)
(*                  <<"arr",  <<v1, ...>>>>    a list                      *)
(*                  <<"obj",  <<<<k1, v1>>, ...>>>>  a dict, in insertion   *)
(*                                             order, keys unique          *)
(* The functions of the source mutate their argument and return a flag;    *)
(* the operators return the pair <<value after, flag>>.                    *)
(***************************************************************************)
EXTENDS Naturals, Sequences, FiniteSets, TLC

VARIABLES
    pc,         \* the handler's position: "received", "admitted", "parsed",
                \* "normalized", "forwarded", "cleaned", "done"
    path,       \* full_path, a sequence of characters
    req_headers,\* the headers the client sent: a set of [name, value]
    data,       \* request.data, the inbound body bytes
    req_body,   \* the parsed inbound body, Null for None
    modified,   \* the flag logged at line 237
    headers,    \* the outbound headers: a set of [name, value], names unique
    calls,      \* how many times requests.request has been called
    sent,       \* the body handed to requests.request: <<"json", value>>,
                \* <<"data", bytes>>, or <<"none", <<>>>> before the call
    resp,       \* what requests.request gave: a response or a raised error
    resp_text,  \* the body to return to the client
    cleaned,    \* whether the response normalisation (lines 265-285) has run
    responses,  \* the responses returned to the client, in order
    arg,        \* pure-function runs: the value handed to the function
    wraps,      \* pure-function runs: how often arg has been wrapped
    ret,        \* pure-function runs: <<value after, flag>>
    op          \* pure-function runs: which function has been applied

fnvars == <<arg, wraps, ret, op>>
hvars == <<pc, path, req_headers, data, req_body, modified, headers, calls, sent,
           resp, resp_text, cleaned, responses>>
vars == <<hvars, fnvars>>

----------------------------------------------------------------------------
(* JSON values *)

Null == <<"null", <<>>>>
Str(s) == <<"str", s>>
Num(lit) == <<"num", lit>>
Arr(elems) == <<"arr", elems>>
Obj(pairs) == <<"obj", pairs>>

IsDict(x) == x[1] = "obj"
IsList(x) == x[1] = "arr"
IsStr(x) == x[1] = "str"

\* k in d
Has(d, k) == \E i \in 1..Len(d[2]) : d[2][i][1] = k

\* d[k]
Get(d, k) == d[2][CHOOSE i \in 1..Len(d[2]) : d[2][i][1] = k][2]

\* del d[k]
Del(d, k) == Obj(SelectSeq(d[2], LAMBDA p : p[1] # k))

\* d[k] = v : an existing key keeps its place, a new key goes last
Set(d, k, v) ==
    IF Has(d, k)
    THEN Obj([i \in 1..Len(d[2]) |-> IF d[2][i][1] = k THEN <<k, v>> ELSE d[2][i]])
    ELSE Obj(Append(d[2], <<k, v>>))

\* "tools" in d and isinstance(d["tools"], list) and len(d["tools"]) == 0
empty_tools_in(d) ==
    /\ Has(d, "tools")
    /\ IsList(Get(d, "tools"))
    /\ Len(Get(d, "tools")[2]) = 0

----------------------------------------------------------------------------
(* remove_empty_tools_in_obj *)

\* A mutant of strip_own_tools: a "tools" list is deleted whatever its length.
strip_any_tools_list(d) ==
    IF Has(d, "tools") /\ IsList(Get(d, "tools"))
    THEN <<Del(d, "tools"), TRUE>>
    ELSE <<d, FALSE>>

\* lines 76-78: the check of the object's own "tools"
strip_own_tools(d) ==
    IF empty_tools_in(d) THEN <<Del(d, "tools"), TRUE>> ELSE <<d, FALSE>>

\* lines 82-91: one element of "choices"
strip_choice(choice) ==
    IF ~IsDict(choice) THEN <<choice, FALSE>>
    ELSE LET msg == IF Has(choice, "message") THEN Get(choice, "message") ELSE Null
             c1 == IF IsDict(msg) /\ empty_tools_in(msg)
                   THEN <<Set(choice, "message", Del(msg, "tools")), TRUE>>
                   ELSE <<choice, FALSE>>
             c2 == strip_own_tools(c1[1])
         IN  <<c2[1], c1[2] \/ c2[2]>>

\* lines 80-91: choices[].message.tools and choices[].tools
strip_choices(d) ==
    IF Has(d, "choices") /\ IsList(Get(d, "choices"))
    THEN LET cs == Get(d, "choices")[2]
             rs == [i \in 1..Len(cs) |-> strip_choice(cs[i])]
         IN  <<Set(d, "choices", Arr([i \in 1..Len(cs) |-> rs[i][1]])),
               \E i \in 1..Len(cs) : rs[i][2]>>
    ELSE <<d, FALSE>>

\* A mutant of descend: nested dicts and lists are not visited.
descend_not(v, r) == <<v, FALSE>>

\* lines 94-96 and 99-101: isinstance(v, (dict, list)) guards the recursive
\* call; r is the result of the recursive call on v
descend(v, r) == IF IsDict(v) \/ IsList(v) THEN r ELSE <<v, FALSE>>

RECURSIVE remove_empty_tools_in_obj(_)
remove_empty_tools_in_obj(obj) ==
    IF IsDict(obj)
    THEN LET a == strip_own_tools(obj)
             b == strip_choices(a[1])
             items == b[1][2]
             rs == [i \in 1..Len(items) |->
                      descend(items[i][2], remove_empty_tools_in_obj(items[i][2]))]
         IN  <<Obj([i \in 1..Len(items) |-> <<items[i][1], rs[i][1]>>]),
               a[2] \/ b[2] \/ \E i \in 1..Len(items) : rs[i][2]>>
    ELSE IF IsList(obj)
    THEN LET items == obj[2]
             rs == [i \in 1..Len(items) |->
                      descend(items[i], remove_empty_tools_in_obj(items[i]))]
         IN  <<Arr([i \in 1..Len(items) |-> rs[i][1]]),
               \E i \in 1..Len(items) : rs[i][2]>>
    ELSE <<obj, FALSE>>

----------------------------------------------------------------------------
(* json.dumps(value, ensure_ascii=False) and "\n".join *)

RECURSIVE Concat(_, _)
\* sep.join(parts), parts a sequence of token sequences
Concat(parts, sep) ==
    IF Len(parts) = 0 THEN <<>>
    ELSE IF Len(parts) = 1 THEN parts[1]
    ELSE parts[1] \o sep \o Concat(Tail(parts), sep)

\* The escape of one token inside a JSON string literal.
EscapeToken(t) ==
    IF t = "\n" THEN "\\n"
    ELSE IF t = "\"" THEN "\\\""
    ELSE IF t = "\\" THEN "\\\\"
    ELSE t

Quoted(s) == <<"\"">> \o [i \in 1..Len(s) |-> EscapeToken(s[i])] \o <<"\"">>

\* json.dumps with its default separators ", " and ": "
RECURSIVE Dumps(_)
Dumps(v) ==
    IF v[1] = "null" THEN <<"null">>
    ELSE IF v[1] = "bool" \/ v[1] = "num" THEN <<v[2]>>
    ELSE IF v[1] = "str" THEN Quoted(v[2])
    ELSE IF v[1] = "arr"
    THEN <<"[">> \o Concat([i \in 1..Len(v[2]) |-> Dumps(v[2][i])], <<",", " ">>)
               \o <<"]">>
    ELSE <<"{">>
         \o Concat([i \in 1..Len(v[2]) |->
                      Quoted(<<v[2][i][1]>>) \o <<":", " ">> \o Dumps(v[2][i][2])],
                   <<",", " ">>)
         \o <<"}">>

----------------------------------------------------------------------------
(* flatten_message_content_in_messages *)

\* d.get(k)
GetOrNone(d, k) == IF Has(d, k) THEN Get(d, k) ELSE Null

\* k in d and isinstance(d[k], str)
HasStr(d, k) == Has(d, k) /\ IsStr(Get(d, k))

\* A mutant of part_text: a str element is serialised like any other
\* element that is not a dict.
part_text_dumps_str(part) ==
    IF IsDict(part)
    THEN IF HasStr(part, "text") THEN Get(part, "text")[2]
         ELSE IF HasStr(part, "content") THEN Get(part, "content")[2]
         ELSE IF HasStr(part, "value") THEN Get(part, "value")[2]
         ELSE Dumps(part)
    ELSE Dumps(part)

\* lines 126-145: the string one element of a list content contributes
part_text(part) ==
    IF IsDict(part)
    THEN IF HasStr(part, "text") THEN Get(part, "text")[2]
         ELSE IF HasStr(part, "content") THEN Get(part, "content")[2]
         ELSE IF HasStr(part, "value") THEN Get(part, "value")[2]
         ELSE Dumps(part)
    ELSE IF IsStr(part) THEN part[2]
    ELSE Dumps(part)

\* lines 155-163: the string one element of content[key] contributes
segment_text(part) ==
    IF IsDict(part) /\ HasStr(part, "text") THEN Get(part, "text")[2]
    ELSE IF IsStr(part) THEN part[2]
    ELSE Dumps(part)

\* A mutant of has_segments: the length of the list is not looked at.
has_segments_any_length(content, key) ==
    Has(content, key) /\ IsList(Get(content, key))

\* line 152: key in content and isinstance(content[key], list) and len > 0
has_segments(content, key) ==
    /\ Has(content, key)
    /\ IsList(Get(content, key))
    /\ Len(Get(content, key)[2]) > 0

\* lines 153-165: "\n".join of the elements of content[key]
join_segments(content, key) ==
    LET ps == Get(content, key)[2]
    IN  Str(Concat([i \in 1..Len(ps) |-> segment_text(ps[i])], <<"\n">>))

\* lines 150-167: a dict content, flattened from the first of "parts",
\* "items", "segments" that holds a non-empty list
flatten_dict_content(content) ==
    IF has_segments(content, "parts") THEN <<join_segments(content, "parts"), TRUE>>
    ELSE IF has_segments(content, "items") THEN <<join_segments(content, "items"), TRUE>>
    ELSE IF has_segments(content, "segments")
    THEN <<join_segments(content, "segments"), TRUE>>
    ELSE <<content, FALSE>>

\* lines 119-167: the body of the loop, for one element of messages
flatten_message(msg) ==
    IF ~IsDict(msg) THEN <<msg, FALSE>>
    ELSE LET content == GetOrNone(msg, "content")
         IN  IF IsList(content) /\ Len(content[2]) > 0
             THEN <<Set(msg, "content",
                        Str(Concat([i \in 1..Len(content[2]) |->
                                      part_text(content[2][i])], <<"\n">>))),
                    TRUE>>
             ELSE IF IsDict(content)
             THEN LET r == flatten_dict_content(content)
                  IN  IF r[2] THEN <<Set(msg, "content", r[1]), TRUE>>
                      ELSE <<msg, FALSE>>
             ELSE <<msg, FALSE>>

flatten_message_content_in_messages(obj) ==
    IF ~IsDict(obj) THEN <<obj, FALSE>>
    ELSE LET messages == GetOrNone(obj, "messages")
         IN  IF ~IsList(messages) THEN <<obj, FALSE>>
             ELSE LET ms == messages[2]
                      rs == [i \in 1..Len(ms) |-> flatten_message(ms[i])]
                      changed == \E i \in 1..Len(ms) : rs[i][2]
                  IN  IF changed
                      THEN <<Set(obj, "messages",
                                 Arr([i \in 1..Len(ms) |-> rs[i][1]])), TRUE>>
                      ELSE <<obj, FALSE>>

----------------------------------------------------------------------------
(* Default parameters and the normalisation of the request body *)

DEFAULT_PARAMS ==
    << <<"temperature", Num("0.7")>>, <<"max_tokens", Num("1024")>> >>

DefaultKeys == {DEFAULT_PARAMS[i][1] : i \in 1..Len(DEFAULT_PARAMS)}

RECURSIVE SetAll(_, _)
\* for k, v in params.items(): d[k] = v
SetAll(d, params) ==
    IF Len(params) = 0 THEN d
    ELSE SetAll(Set(d, params[1][1], params[1][2]), Tail(params))

\* A mutant of inject_defaults: dict.setdefault, a key the body holds is kept.
inject_defaults_if_absent(body) ==
    IF IsDict(body)
    THEN SetAll(body, SelectSeq(DEFAULT_PARAMS, LAMBDA p : ~Has(body, p[1])))
    ELSE body

\* lines 226-229
inject_defaults(body) ==
    IF IsDict(body) THEN SetAll(body, DEFAULT_PARAMS) ELSE body

\* lines 215-229: <<req_body after, modified>>
normalize_request(body) ==
    IF IsDict(body) \/ IsList(body)
    THEN LET a == remove_empty_tools_in_obj(body)
             b == flatten_message_content_in_messages(a[1])
         IN  <<inject_defaults(b[1]), a[2] \/ b[2]>>
    ELSE <<body, FALSE>>

----------------------------------------------------------------------------
(* Configuration *)

DEEPSEEK_KEY == "YOUR_DEEPSEEK_KEY_HERE"
CLEAN_RESPONSE_TOOLS == TRUE

ChatCompletions == <<"/", "v", "1", "/", "c", "h", "a", "t", "/", "c", "o", "m", "p", "l", "e", "t", "i", "o", "n", "s">>
Completions == <<"/", "v", "1", "/", "c", "o", "m", "p", "l", "e", "t", "i", "o", "n", "s">>
Models == <<"/", "v", "1", "/", "m", "o", "d", "e", "l", "s">>
Wildcard == <<"/", "v", "1", "/", "*">>

ALLOWED_PREFIXES == <<ChatCompletions, Completions, Models, Wildcard>>

----------------------------------------------------------------------------
(* should_handle_path *)

\* s.startswith(prefix)
StartsWith(s, prefix) ==
    Len(prefix) <= Len(s) /\ SubSeq(s, 1, Len(prefix)) = prefix

\* lines 178-184: whether the prefix p admits the path
prefix_admits(p, full_path) ==
    IF Len(p) > 0 /\ p[Len(p)] = "*"
    THEN StartsWith(full_path, SubSeq(p, 1, Len(p) - 1))
    ELSE full_path = p \/ StartsWith(full_path, p)

\* A mutant of should_handle_path: the prefixes that end with "*" are skipped.
should_handle_path_no_wildcard(full_path) ==
    \E i \in 1..Len(ALLOWED_PREFIXES) :
        /\ ALLOWED_PREFIXES[i][Len(ALLOWED_PREFIXES[i])] # "*"
        /\ prefix_admits(ALLOWED_PREFIXES[i], full_path)

should_handle_path(full_path) ==
    \E i \in 1..Len(ALLOWED_PREFIXES) : prefix_admits(ALLOWED_PREFIXES[i], full_path)

----------------------------------------------------------------------------
(* Text: str.lower, str.title, substring test, bytes.strip *)

\* The tokens and header names of the model that change under str.lower().
LowerPairs ==
    { <<"Content-Type", "content-type">>, <<"Authorization", "authorization">>,
      <<"AUTHORIZATION", "authorization">>, <<"Host", "host">>,
      <<"Content-Encoding", "content-encoding">>, <<"User-Agent", "user-agent">>,
      <<"Content-Length", "content-length">>,
      <<"Application/", "application/">>, <<"JSON", "json">> }

\* s.lower()
Lower(s) ==
    IF \E q \in LowerPairs : q[1] = s
    THEN (CHOOSE q \in LowerPairs : q[1] = s)[2]
    ELSE s

\* The header names of the model that change under str.title().
TitlePairs ==
    { <<"content-type", "Content-Type">>, <<"authorization", "Authorization">>,
      <<"AUTHORIZATION", "Authorization">>, <<"content-length", "Content-Length">> }

\* s.title()
Title(s) ==
    IF \E q \in TitlePairs : q[1] = s
    THEN (CHOOSE q \in TitlePairs : q[1] = s)[2]
    ELSE s

\* "json" in text
ContainsJson(text) == \E i \in 1..Len(text) : text[i] = "json"

\* text.lower()
LowerText(text) == [i \in 1..Len(text) |-> Lower(text[i])]

RECURSIVE LStrip(_)
LStrip(text) ==
    IF Len(text) > 0 /\ text[1] = " " THEN LStrip(Tail(text)) ELSE text

RECURSIVE RStrip(_)
RStrip(text) ==
    IF Len(text) > 0 /\ text[Len(text)] = " "
    THEN RStrip(SubSeq(text, 1, Len(text) - 1))
    ELSE text

\* text.strip()
StripWs(text) == RStrip(LStrip(text))

\* text.startswith(token), for a one-character token
StartsWithToken(text, token) == Len(text) > 0 /\ text[1] = token

----------------------------------------------------------------------------
(* JSON texts and their parse *)

ScenarioRequest ==
    Obj(<< <<"messages", Arr(<< Obj(<< <<"role", Str(<<"user">>)>>,
                                       <<"content", Arr(<< Obj(<< <<"text", Str(<<"hi">>)>> >>) >>)>> >>) >>)>>,
           <<"tools", Arr(<<>>)>> >>)

ScenarioResponse ==
    Obj(<< <<"choices", Arr(<< Obj(<< <<"message", Obj(<< <<"tools", Arr(<<>>)>> >>)>>,
                                      <<"tools", Arr(<<>>)>> >>) >>)>> >>)

\* The JSON values that travel as request bodies.
RequestValues ==
    { ScenarioRequest,
      Obj(<< <<"temperature", Num("0.2")>>, <<"model", Str(<<"m">>)>> >>),
      Obj(<< <<"messages", Arr(<< Obj(<< <<"content", Str(<<"hi">>)>> >>) >>)>> >>),
      Arr(<< Obj(<< <<"tools", Arr(<<>>)>>, <<"max_tokens", Num("5")>> >>),
             Obj(<< <<"model", Str(<<"m">>)>> >>) >>),
      Str(<<"x">>),
      Null }

\* The JSON values that travel as response bodies.
ResponseValues ==
    { ScenarioResponse,
      Obj(<< <<"choices", Arr(<< Obj(<< <<"message", Obj(<< <<"content", Str(<<"ok">>)>> >>)>> >>) >>)>>,
             <<"tools", Arr(<< Str(<<"t">>) >>)>> >>),
      Arr(<< Obj(<< <<"tools", Arr(<<>>)>> >>) >>) }

JsonValues == RequestValues \cup ResponseValues

\* A text without its whitespace between JSON tokens.
Compact(text) == SelectSeq(text, LAMBDA t : t # " ")

\* The values of the model, each with its text in compact form.
JsonTexts == {<<Compact(Dumps(v)), v>> : v \in JsonValues}

\* The parse of a text: <<"ok", value>> for the text of a value of the
\* model, whatever its whitespace, and <<"ValueError", Null>> for any other
\* text (json.JSONDecodeError is a ValueError).
Loads(text) ==
    LET c == Compact(text)
    IN  IF \E q \in JsonTexts : q[1] = c
        THEN <<"ok", (CHOOSE q \in JsonTexts : q[1] = c)[2]>>
        ELSE <<"ValueError", Null>>

\* Texts that are no JSON.
BrokenObject == <<"{", "\"", "tools", "\"", ":">>
BrokenList == <<" ", "[", "1", ",", "]">>
PlainText == <<"hello">>

----------------------------------------------------------------------------
(* The steps of proxy() *)

\* Response("Not handled by deepseek proxy", status=404)
NotHandled == [status |-> 404, body |-> <<"Not handled by deepseek proxy">>]

\* The response the framework returns when proxy() raises exc: 400 for the
\* BadRequest that get_json raises, 500 for any other exception.
Unhandled(exc) ==
    [status |-> IF exc = "BadRequest" THEN 400 ELSE 500, body |-> <<exc>>]

\* request.headers.get("Content-Type", ""): the lookup ignores case
content_type_of(hs) ==
    IF \E h \in hs : Lower(h.name) = "content-type"
    THEN (CHOOSE h \in hs : Lower(h.name) = "content-type").value
    ELSE <<>>

\* line 205: request.get_json(force=True) raises BadRequest on a parse failure
get_json(text) ==
    LET r == Loads(text) IN IF r[1] = "ok" THEN r ELSE <<"BadRequest", Null>>

\* line 209: json.loads(request.data.decode("utf-8"))
json_loads(text) == Loads(text)

\* lines 210, 212, 282: except TypeError
except_TypeError(exc) == exc = "TypeError"

\* lines 200-213: <<"ok", req_body>>, or <<exception, Null>> when the
\* exception leaves proxy()
read_body(content_type, body) ==
    IF Len(body) = 0 THEN <<"ok", Null>>
    ELSE LET r == IF ContainsJson(content_type) THEN get_json(body)
                  ELSE json_loads(body)
         IN  IF r[1] # "ok" /\ except_TypeError(r[1]) THEN <<"ok", Null>> ELSE r

\* request.headers.items(): the WSGI environ holds each header under
\* HTTP_<NAME>, and the name comes back title-cased
request_headers_items(hs) == {[name |-> Title(h.name), value |-> h.value] : h \in hs}

\* headers[k] = v on the outbound dict
SetHeader(hs, k, v) == {h \in hs : h.name # k} \cup {[name |-> k, value |-> v]}

\* lines 244-247: the loop that copies the inbound headers
copy_headers(hs) ==
    {h \in request_headers_items(hs) :
        Lower(h.name) \notin {"host", "content-length", "content-encoding"}}

\* A mutant of forward_headers: Authorization is set only when the client
\* sent none.
forward_headers_keep_client(hs) ==
    IF \E h \in copy_headers(hs) : h.name = "Authorization"
    THEN copy_headers(hs)
    ELSE SetHeader(copy_headers(hs), "Authorization", <<"Bearer ", DEEPSEEK_KEY>>)

\* lines 242-249
forward_headers(hs) ==
    SetHeader(copy_headers(hs), "Authorization", <<"Bearer ", DEEPSEEK_KEY>>)

\* lines 255-258: json=req_body, or data=request.get_data()
outbound_body(body, raw) ==
    IF body # Null THEN <<"json", body>> ELSE <<"data", raw>>

\* A mutant of bad_gateway: the error description is left out of the body.
bad_gateway_no_description(e) ==
    [status |-> 502, body |-> <<"Upstream request failed">>]

\* line 261: Response(f"Upstream request failed: {e}", status=502)
bad_gateway(e) == [status |-> 502, body |-> <<"Upstream request failed: ">> \o e]

\* lines 271-277: the condition under which the response body is parsed
looks_like_json(ctype, content) ==
    /\ CLEAN_RESPONSE_TOOLS
    /\ Len(content) > 0
    /\ \/ Len(ctype) > 0 /\ ContainsJson(LowerText(ctype))
       \/ StartsWithToken(StripWs(content), "{")
       \/ StartsWithToken(StripWs(content), "[")

\* line 278: resp.json() raises a JSONDecodeError, which is a ValueError
resp_json(content) == Loads(content)

\* lines 268-284: <<"ok", resp_text>>, or <<exception, content>> when the
\* exception leaves proxy()
clean_response(ctype, content) ==
    IF looks_like_json(ctype, content)
    THEN LET r == resp_json(content)
         IN  IF r[1] = "ok"
             THEN LET t == remove_empty_tools_in_obj(r[2])
                  IN  IF t[2] THEN <<"ok", Dumps(t[1])>> ELSE <<"ok", content>>
             ELSE IF except_TypeError(r[1]) THEN <<"ok", content>>
             ELSE <<r[1], content>>
    ELSE <<"ok", content>>

NoResp == [kind |-> "none", status |-> 0, ctype |-> <<>>, content |-> <<>>, error |-> <<>>]

\* line 196-197
Admit ==
    /\ pc = "received"
    /\ IF should_handle_path(path)
       THEN pc' = "admitted" /\ UNCHANGED responses
       ELSE pc' = "done" /\ responses' = Append(responses, NotHandled)
    /\ UNCHANGED <<path, req_headers, data, req_body, modified, headers, calls,
                   sent, resp, resp_text, cleaned, fnvars>>

\* lines 199-213
ReadBody ==
    /\ pc = "admitted"
    /\ LET r == read_body(content_type_of(req_headers), data)
       IN  IF r[1] = "ok"
           THEN pc' = "parsed" /\ req_body' = r[2] /\ UNCHANGED responses
           ELSE /\ pc' = "done"
                /\ responses' = Append(responses, Unhandled(r[1]))
                /\ UNCHANGED req_body
    /\ UNCHANGED <<path, req_headers, data, modified, headers, calls, sent, resp,
                   resp_text, cleaned, fnvars>>

\* lines 215-238
NormalizeRequest ==
    /\ pc = "parsed"
    /\ LET r == normalize_request(req_body)
       IN  req_body' = r[1] /\ modified' = r[2]
    /\ pc' = "normalized"
    /\ UNCHANGED <<path, req_headers, data, headers, calls, sent, resp, resp_text,
                   cleaned, responses, fnvars>>

\* lines 240-262: the outbound headers and the one call of requests.request,
\* which returns the response r or raises an exception described by r.error
Forward(r) ==
    /\ pc = "normalized"
    /\ headers' = forward_headers(req_headers)
    /\ sent' = outbound_body(req_body, data)
    /\ calls' = calls + 1
    /\ resp' = r
    /\ IF r.kind = "error"
       THEN pc' = "done" /\ responses' = Append(responses, bad_gateway(r.error))
       ELSE pc' = "forwarded" /\ UNCHANGED responses
    /\ UNCHANGED <<path, req_headers, data, req_body, modified, resp_text, cleaned,
                   fnvars>>

\* lines 265-285
NormalizeResponse ==
    /\ pc = "forwarded"
    /\ cleaned' = TRUE
    /\ LET r == clean_response(resp.ctype, resp.content)
       IN  IF r[1] = "ok"
           THEN pc' = "cleaned" /\ resp_text' = r[2] /\ UNCHANGED responses
           ELSE /\ pc' = "done"
                /\ responses' = Append(responses, Unhandled(r[1]))
                /\ UNCHANGED resp_text
    /\ UNCHANGED <<path, req_headers, data, req_body, modified, headers, calls,
                   sent, resp, fnvars>>

\* lines 288-298: Response(resp_text, status=resp.status_code)
Send ==
    /\ pc = "cleaned"
    /\ responses' = Append(responses, [status |-> resp.status, body |-> resp_text])
    /\ pc' = "done"
    /\ UNCHANGED <<path, req_headers, data, req_body, modified, headers, calls,
                   sent, resp, resp_text, cleaned, fnvars>>

----------------------------------------------------------------------------
(* The requests and the upstream results of the model *)

\* How many headers a request carries.
MaxHeaders == 2

UnknownV1Path == <<"/", "v", "1", "/", "u", "n", "k", "n", "o", "w", "n", "/", "p", "a", "t", "h">>
UnknownPath == <<"/", "u", "n", "k", "n", "o", "w", "n", "/", "p", "a", "t", "h">>
BareV1 == <<"/", "v", "1">>

Paths == {ChatCompletions, UnknownV1Path, UnknownPath, BareV1}

JsonType == <<"application/", "json">>
TextType == <<"text/plain">>

HeaderPool ==
    { [name |-> "Content-Type", value |-> JsonType],
      [name |-> "content-type", value |-> TextType],
      [name |-> "authorization", value |-> <<"Bearer ", "sk-client">>],
      [name |-> "AUTHORIZATION", value |-> <<"Basic ", "dXNlcg==">>],
      [name |-> "Authorization", value |-> <<"Bearer ", "sk-client">>],
      [name |-> "Host", value |-> <<"127.0.0.1:8080">>],
      [name |-> "content-length", value |-> <<"12">>],
      [name |-> "Content-Encoding", value |-> <<"gzip">>],
      [name |-> "User-Agent", value |-> <<"curl">>] }

\* The header sets of at most MaxHeaders headers, one per name whatever its
\* case.
HeaderSets ==
    {hs \in SUBSET HeaderPool :
        /\ Cardinality(hs) <= MaxHeaders
        /\ \A g \in hs : \A h \in hs : Lower(g.name) = Lower(h.name) => g = h}

Bodies ==
    {<<>>, BrokenObject, PlainText}
    \cup {Dumps(v) : v \in RequestValues}
    \cup {Compact(Dumps(ScenarioRequest))}

UpstreamErrors ==
    {[kind |-> "error", status |-> 0, ctype |-> <<>>, content |-> <<>>, error |-> e] :
        e \in {<<"Connection refused">>, <<"Read timed out">>}}

UpstreamBodies ==
    { <<JsonType, Dumps(ScenarioResponse)>>,
      <<TextType, Compact(Dumps(ScenarioResponse))>>,
      <<<<"Application/", "JSON">>, BrokenObject>>,
      <<<<>>, BrokenList>>,
      <<JsonType, PlainText>>,
      <<TextType, PlainText>>,
      <<JsonType, <<>>>>,
      <<<<>>, <<" ">>>> }
    \cup {<<JsonType, Dumps(v)>> : v \in ResponseValues}

UpstreamResponses ==
    {[kind |-> "response", status |-> st, ctype |-> b[1], content |-> b[2],
      error |-> <<>>] : st \in {200, 429}, b \in UpstreamBodies}

FnIdle == arg = Null /\ wraps = 0 /\ ret = <<Null, FALSE>> /\ op = "idle"

Init ==
    /\ pc = "received"
    /\ path \in Paths
    /\ req_headers \in HeaderSets
    /\ data \in Bodies
    /\ req_body = Null
    /\ modified = FALSE
    /\ headers = {}
    /\ calls = 0
    /\ sent = <<"none", <<>>>>
    /\ resp = NoResp
    /\ resp_text = <<>>
    /\ cleaned = FALSE
    /\ responses = <<>>
    /\ FnIdle

Next ==
    \/ Admit
    \/ ReadBody
    \/ NormalizeRequest
    \/ \E r \in UpstreamErrors \cup UpstreamResponses : Forward(r)
    \/ NormalizeResponse
    \/ Send

Spec == Init /\ [][Next]_vars

\* The handler variables of a pure-function run: no request is in progress.
HandlerIdle ==
    /\ pc = "idle"
    /\ path = <<>>
    /\ req_headers = {}
    /\ data = <<>>
    /\ req_body = Null
    /\ modified = FALSE
    /\ headers = {}
    /\ calls = 0
    /\ sent = <<"none", <<>>>>
    /\ resp = NoResp
    /\ resp_text = <<>>
    /\ cleaned = FALSE
    /\ responses = <<>>

----------------------------------------------------------------------------
(* Inputs of the pure-function runs *)

\* How many times a seed value is wrapped into an enclosing list or dict.
MaxWraps == 2

StrA == Str(<<"a">>)
EmptyTools == Obj(<< <<"tools", Arr(<<>>)>> >>)

\* One level of nesting around t: a list holding t, alone or beside one
\* sibling, or a dict holding t under a key k, alone or beside one sibling
\* s under a key k2 (sibs holds the triples <<k, k2, s>>).
Wraps(t, keys, arrSibs, sibs) ==
    {Arr(<<t>>)}
    \cup {Arr(<<t, s>>) : s \in arrSibs}
    \cup {Arr(<<s, t>>) : s \in arrSibs}
    \cup {Obj(<< <<k, t>> >>) : k \in keys}
    \cup {Obj(<< <<q[1], t>>, <<q[2], q[3]>> >>) : q \in sibs}

StripKeys == {"tools", "choices", "message"}
StripArrSibs == {Arr(<<>>), Null, EmptyTools}
StripSibs ==
    {<<q[1], q[2], s>> :
        q \in {r \in StripKeys \X StripKeys : r[1] # r[2]}, s \in StripArrSibs}
StripSeeds ==
    { Null, StrA, Arr(<<>>), Obj(<<>>), EmptyTools,
      Obj(<< <<"tools", Null>> >>),
      Obj(<< <<"tools", Arr(<<EmptyTools>>)>> >>),
      Obj(<< <<"message", EmptyTools>>, <<"tools", Arr(<<>>)>> >>),
      Obj(<< <<"message", Obj(<< <<"tools", Arr(<<StrA>>)>> >>)>>,
             <<"tools", Arr(<<>>)>> >>) }

\* Elements of a list content.
TextA == Obj(<< <<"text", StrA>> >>)
TextB == Obj(<< <<"text", Str(<<"b">>)>> >>)
Image == Obj(<< <<"type", Str(<<"say ", "\"", "x", "\"">>)>> >>)
StrHi == Str(<<"hi">>)
PartPool ==
    { TextA, TextB, Image, StrHi, Null, Num("5"),
      Obj(<< <<"content", Str(<<"c">>)>> >>),
      Obj(<< <<"value", Str(<<"v">>)>> >>),
      Obj(<< <<"text", Null>>, <<"value", Str(<<"v">>)>>, <<"content", Str(<<"c">>)>> >>),
      Obj(<< <<"text", Num("5")>> >>) }
PairPool == {TextA, TextB, Image, StrHi}

\* Values of a message's "content".
Contents ==
    { StrHi, Arr(<<>>), Null }
    \cup {Arr(<<x>>) : x \in PartPool}
    \cup {Arr(<<x, y>>) : x \in PairPool, y \in PairPool}
    \cup { Obj(<< <<"parts", Arr(<<StrA, TextB>>)>> >>),
           Obj(<< <<"items", Arr(<<Image>>)>>, <<"segments", Arr(<<StrA>>)>> >>),
           Obj(<< <<"parts", Arr(<<>>)>>, <<"segments", Arr(<<Null, StrA>>)>> >>),
           Obj(<< <<"parts", Null>>, <<"items", Arr(<<>>)>> >>),
           Obj(<< <<"note", StrA>> >>) }

User == <<"role", Str(<<"user">>)>>
MsgSeeds ==
    {Obj(<<User, <<"content", c>> >>) : c \in Contents}
    \cup {Obj(<<User>>), StrA}

FlattenKeys == {"messages"}
FlattenArrSibs == {StrA, Obj(<< <<"content", Arr(<<TextB>>)>> >>)}
FlattenSibs ==
    { <<"messages", "temperature", Num("0.2")>>,
      <<"messages", "tools", Arr(<<>>)>>,
      <<"messages", "tools", Arr(<<StrA>>)>> }

FnNone == <<Null, FALSE>>

InitStrip ==
    /\ HandlerIdle
    /\ arg \in StripSeeds
    /\ wraps = 0
    /\ ret = FnNone
    /\ op = "none"

\* The value to be handed to the function gets one more level of nesting.
WrapStripInput ==
    /\ op = "none"
    /\ wraps < MaxWraps
    /\ arg' \in Wraps(arg, StripKeys, StripArrSibs, StripSibs)
    /\ wraps' = wraps + 1
    /\ UNCHANGED <<ret, op, hvars>>

\* ret = remove_empty_tools_in_obj(arg), arg being mutated into ret[1]
CallStrip ==
    /\ op = "none"
    /\ ret' = remove_empty_tools_in_obj(arg)
    /\ op' = "strip"
    /\ UNCHANGED <<arg, wraps, hvars>>

NextStrip == WrapStripInput \/ CallStrip

SpecStrip == InitStrip /\ [][NextStrip]_vars

----------------------------------------------------------------------------
(* Claims about remove_empty_tools_in_obj *)

\* Some dict at some depth of v holds "tools": [].
RECURSIVE HasEmptyTools(_)
HasEmptyTools(v) ==
    IF IsDict(v)
    THEN \/ empty_tools_in(v)
         \/ \E i \in 1..Len(v[2]) : HasEmptyTools(v[2][i][2])
    ELSE IF IsList(v)
    THEN \E i \in 1..Len(v[2]) : HasEmptyTools(v[2][i])
    ELSE FALSE

\* C6: after remove_empty_tools_in_obj no dict at any depth holds a
\* zero-length "tools" list, and the function returns True exactly when it
\* removed at least one such key (the tree changed, which happens exactly
\* when the tree held one).
C6_NoEmptyToolsLeft ==
    op = "strip" =>
        /\ ~HasEmptyTools(ret[1])
        /\ ret[2] <=> (ret[1] # arg)
        /\ ret[2] <=> HasEmptyTools(arg)

\* An empty "tools" below the root, out of reach of the "choices" special
\* case, has been removed.
C6_Witness ==
    /\ op = "strip"
    /\ IsDict(arg)
    /\ ~Has(arg, "choices")
    /\ ~empty_tools_in(arg)
    /\ HasEmptyTools(arg)
    /\ ret[2]

\* The value w found after the transform under a "tools" key whose value
\* was v: equal to v (exact), or equal to v when v holds no empty "tools"
\* inside it and otherwise of v's kind and, for a list, of v's length.
ToolsValueKept(v, w, exact) ==
    IF exact \/ ~HasEmptyTools(v)
    THEN w = v
    ELSE w[1] = v[1] /\ (IsList(v) => Len(w[2]) = Len(v[2]))

\* Every "tools" key of a, at every depth, whose value is not a zero-length
\* list is a key of b at the same place, with its value kept.
RECURSIVE ToolsKept(_, _, _)
ToolsKept(a, b, exact) ==
    IF IsDict(a)
    THEN /\ IsDict(b)
         /\ \A i \in 1..Len(a[2]) :
              LET k == a[2][i][1]
                  v == a[2][i][2]
              IN  \/ k = "tools" /\ IsList(v) /\ Len(v[2]) = 0
                  \/ /\ Has(b, k)
                     /\ k = "tools" => ToolsValueKept(v, Get(b, k), exact)
                     /\ ToolsKept(v, Get(b, k), exact)
    ELSE IF IsList(a)
    THEN /\ IsList(b)
         /\ Len(b[2]) = Len(a[2])
         /\ \A i \in 1..Len(a[2]) : ToolsKept(a[2][i], b[2][i], exact)
    ELSE TRUE

\* C7 as stated: every "tools" field whose value is a non-empty list or not
\* a list stays present with a value equal to its value before, also when
\* the list's elements are dicts that hold further "tools" fields.
C7_Original == op = "strip" => ToolsKept(arg, ret[1], TRUE)

\* C7 as amended: every such "tools" field stays present, its value keeps
\* its kind (and a list its length), and the value is equal to its value
\* before whenever no dict inside it holds a zero-length "tools" list.
C7_ToolsKept == op = "strip" => ToolsKept(arg, ret[1], FALSE)

\* A non-empty "tools" list survives a run that removed an empty one.
C7_Witness ==
    /\ op = "strip"
    /\ ret[2]
    /\ IsDict(arg)
    /\ Has(arg, "tools")
    /\ IsList(Get(arg, "tools"))
    /\ Len(Get(arg, "tools")[2]) > 0
    /\ ~HasEmptyTools(Get(arg, "tools"))

----------------------------------------------------------------------------
(* Pure-function runs of the request normalisation *)

InitFlatten ==
    /\ HandlerIdle
    /\ arg \in MsgSeeds
    /\ wraps = 0
    /\ ret = FnNone
    /\ op = "none"

\* The value to be handed to the function gets one more level of nesting: a
\* message becomes a list of messages, the list a body.
WrapFlattenInput ==
    /\ op = "none"
    /\ wraps < MaxWraps
    /\ arg' \in Wraps(arg, FlattenKeys, FlattenArrSibs, FlattenSibs)
    /\ wraps' = wraps + 1
    /\ UNCHANGED <<ret, op, hvars>>

\* ret = flatten_message_content_in_messages(arg)
CallFlatten ==
    /\ op = "none"
    /\ ret' = flatten_message_content_in_messages(arg)
    /\ op' = "flatten"
    /\ UNCHANGED <<arg, wraps, hvars>>

\* lines 215-229 applied to req_body = arg
CallNormalize ==
    /\ op = "none"
    /\ ret' = normalize_request(arg)
    /\ op' = "normalize"
    /\ UNCHANGED <<arg, wraps, hvars>>

NextFlatten == WrapFlattenInput \/ CallFlatten \/ CallNormalize

SpecFlatten == InitFlatten /\ [][NextFlatten]_vars

----------------------------------------------------------------------------
(* Claims about flatten_message_content_in_messages *)

\* The first string-typed field among "text", "content", "value".
FirstTextField(e) ==
    IF HasStr(e, "text") THEN Get(e, "text")[2]
    ELSE IF HasStr(e, "content") THEN Get(e, "content")[2]
    ELSE Get(e, "value")[2]

\* The string the claim gives one content element: the first string-typed
\* field of the three, and the JSON serialisation of an element that has
\* none; with strRaw, an element that is itself a string is taken as it is.
ClaimedPart(e, strRaw) ==
    IF IsDict(e) /\ (HasStr(e, "text") \/ HasStr(e, "content") \/ HasStr(e, "value"))
    THEN FirstTextField(e)
    ELSE IF strRaw /\ IsStr(e) THEN e[2]
    ELSE Dumps(e)

\* b is a with every non-empty list content of messages[i] replaced by the
\* newline-join of the claimed strings, and every string or empty-list
\* content left as it was.
FlattenedAs(a, b, strRaw) ==
    (IsDict(a) /\ Has(a, "messages") /\ IsList(Get(a, "messages"))) =>
        /\ IsDict(b) /\ Has(b, "messages") /\ IsList(Get(b, "messages"))
        /\ Len(Get(b, "messages")[2]) = Len(Get(a, "messages")[2])
        /\ \A i \in 1..Len(Get(a, "messages")[2]) :
             LET m == Get(a, "messages")[2][i]
                 n == Get(b, "messages")[2][i]
                 c == Get(m, "content")
             IN  (IsDict(m) /\ Has(m, "content")) =>
                   IF IsList(c) /\ Len(c[2]) > 0
                   THEN /\ IsDict(n) /\ Has(n, "content")
                        /\ Get(n, "content") =
                             Str(Concat([j \in 1..Len(c[2]) |->
                                           ClaimedPart(c[2][j], strRaw)], <<"\n">>))
                        /\ c = Arr(<<TextA, TextB>>) =>
                             Get(n, "content") = Str(<<"a", "\n", "b">>)
                   ELSE (IsStr(c) \/ IsList(c)) => n = m

\* C9 as stated: a non-empty list content becomes the newline-join of one
\* string per element, the first string-typed field among text, content,
\* value, and the JSON serialisation of every element that has none of them;
\* string and empty-list contents are unchanged.
C9_Original == op = "flatten" => FlattenedAs(arg, ret[1], FALSE)

\* C9 as amended: as stated, except that an element that is itself a string
\* contributes the string as it is, not its JSON serialisation.
C9_Flattened == op = "flatten" => FlattenedAs(arg, ret[1], TRUE)

\* A content of two elements, a string and a dict without any of the three
\* fields, has been flattened.
C9_Witness ==
    /\ op = "flatten"
    /\ ret[2]
    /\ IsDict(arg) /\ Has(arg, "messages") /\ IsList(Get(arg, "messages"))
    /\ \E i \in 1..Len(Get(arg, "messages")[2]) :
         LET m == Get(arg, "messages")[2][i]
         IN  /\ IsDict(m) /\ Has(m, "content")
             /\ Get(m, "content") = Arr(<<StrHi, Image>>)

----------------------------------------------------------------------------
(* Claims about the normalisation as a whole *)

\* Some element of root.messages has a list as its content.
HasArrayContent(v) ==
    /\ IsDict(v) /\ Has(v, "messages") /\ IsList(Get(v, "messages"))
    /\ \E i \in 1..Len(Get(v, "messages")[2]) :
         LET m == Get(v, "messages")[2][i]
         IN  IsDict(m) /\ Has(m, "content") /\ IsList(Get(m, "content"))

\* Some element of root.messages has as its content a dict that holds a
\* non-empty list under "parts", "items" or "segments".
HasSegmentedContent(v) ==
    /\ IsDict(v) /\ Has(v, "messages") /\ IsList(Get(v, "messages"))
    /\ \E i \in 1..Len(Get(v, "messages")[2]) :
         LET m == Get(v, "messages")[2][i]
         IN  /\ IsDict(m) /\ Has(m, "content") /\ IsDict(Get(m, "content"))
             /\ \E k \in {"parts", "items", "segments"} :
                  LET c == Get(m, "content")
                  IN  Has(c, k) /\ IsList(Get(c, k)) /\ Len(Get(c, k)[2]) > 0

RECURSIVE DelAll(_, _)
DelAll(d, ks) ==
    IF ks = {} THEN d
    ELSE LET k == CHOOSE x \in ks : TRUE IN DelAll(Del(d, k), ks \ {k})

\* b holds every default parameter with its configured value.
HoldsDefaults(b) ==
    \A i \in 1..Len(DEFAULT_PARAMS) :
        /\ Has(b, DEFAULT_PARAMS[i][1])
        /\ Get(b, DEFAULT_PARAMS[i][1]) = DEFAULT_PARAMS[i][2]

\* b is a but for the default-parameter keys of a root dict.
SameButDefaults(a, b) ==
    IF IsDict(a)
    THEN IsDict(b) /\ HoldsDefaults(b) /\ DelAll(b, DefaultKeys) = DelAll(a, DefaultKeys)
    ELSE b = a

\* C10 as stated: a body with no empty "tools" list at any depth and no
\* message whose content is a list comes out of the normalisation unchanged
\* but for the default parameters of a root dict, and neither transform
\* reports a modification.
C10_Original ==
    (op = "normalize" /\ ~HasEmptyTools(arg) /\ ~HasArrayContent(arg)) =>
        ret[2] = FALSE /\ SameButDefaults(arg, ret[1])

\* C10 as amended: as stated, for a body that also has no message whose
\* content is a dict holding a non-empty list under "parts", "items" or
\* "segments".
C10_RoundTrip ==
    (op = "normalize" /\ ~HasEmptyTools(arg) /\ ~HasArrayContent(arg)
        /\ ~HasSegmentedContent(arg)) =>
        ret[2] = FALSE /\ SameButDefaults(arg, ret[1])

\* A dict body with messages, a non-empty "tools" list and nothing to
\* normalise has gone through the normalisation.
C10_Witness ==
    /\ op = "normalize"
    /\ ~HasEmptyTools(arg) /\ ~HasArrayContent(arg) /\ ~HasSegmentedContent(arg)
    /\ IsDict(arg) /\ Has(arg, "messages") /\ IsList(Get(arg, "messages"))
    /\ Len(Get(arg, "messages")[2]) > 0
    /\ Has(arg, "tools")

----------------------------------------------------------------------------
(* Claims about proxy() *)

\* The request has passed the path filter.
Admitted == should_handle_path(path)

\* The inbound body is not empty and is no JSON text.
BodyNotJson == Len(data) > 0 /\ Loads(data)[1] # "ok"

\* C1: an admitted request with a non-empty body that is no valid JSON does
\* not fail at the parse: the body is taken as absent, the normalisation is
\* skipped, and the upstream call is made with the raw inbound bytes.
C1_BodyParseFailureAbsorbed ==
    (Admitted /\ BodyNotJson) =>
        /\ pc \notin {"received", "admitted"} => req_body = Null /\ modified = FALSE
        /\ pc = "done" => calls = 1 /\ sent = <<"data", data>>

\* The upstream body is one the claim says is returned as it is: empty,
\* not looking like JSON (no "json" in the content type, no leading { or [),
\* or looking like JSON and failing to parse.
ReturnedAsIs ==
    \/ ~CLEAN_RESPONSE_TOOLS
    \/ Len(resp.content) = 0
    \/ /\ ~ContainsJson(LowerText(resp.ctype))
       /\ ~StartsWithToken(StripWs(resp.content), "{")
       /\ ~StartsWithToken(StripWs(resp.content), "[")
    \/ Loads(resp.content)[1] # "ok"

\* C2: the response normalisation never fails the response: for such an
\* upstream body the handler returns the upstream bytes unchanged with the
\* upstream status code.
C2_ResponseParseFailureAbsorbed ==
    (pc = "done" /\ resp.kind = "response" /\ ReturnedAsIs) =>
        responses = <<[status |-> resp.status, body |-> resp.content]>>

\* The request has been rejected by the path filter: one 404 response with
\* the fixed body, and no upstream call.
Rejected ==
    pc = "done" /\ calls = 0 /\ responses = <<NotHandled>>

\* C3 as stated: with the default prefixes a request to /v1/unknown/path is
\* rejected at admission with 404 "Not handled by deepseek proxy" and no
\* upstream call.
C3_Original ==
    (path = UnknownV1Path /\ pc # "received") => Rejected

\* C3 as amended: with the default prefixes the wildcard /v1/* admits every
\* path that starts with /v1/, /v1/unknown/path included, and a request
\* whose path does not start with /v1/ is rejected at admission with 404
\* "Not handled by deepseek proxy" and no upstream call.
C3_PathFilter ==
    pc # "received" =>
        IF StartsWith(path, <<"/", "v", "1", "/">>)
        THEN pc # "done" \/ responses # <<NotHandled>>
        ELSE Rejected

\* The request to /v1/unknown/path has been forwarded upstream.
C3_Witness == path = UnknownV1Path /\ calls = 1

\* C4: the upstream call is made at most once, and when it raises, the
\* handler ends at once with the single response 502 whose body holds the
\* error description, without running the response normalisation.
C4_SingleAttempt ==
    /\ calls <= 1
    /\ Len(responses) <= 1
    /\ resp.kind = "error" =>
         /\ pc = "done"
         /\ calls = 1
         /\ ~cleaned
         /\ responses =
              <<[status |-> 502,
                 body |-> <<"Upstream request failed: ">> \o resp.error]>>

\* The upstream call has raised.
C4_Witness == resp.kind = "error" /\ pc = "done" /\ calls = 1

\* C5: the outbound headers hold exactly one Authorization header, the
\* configured bearer token, whatever the client sent and in whatever case;
\* host, content-length and content-encoding are not copied; every other
\* inbound header is copied with its value.
C5_ForcedAuthorization ==
    calls = 1 =>
        /\ {h \in headers : Lower(h.name) = "authorization"} =
             {[name |-> "Authorization", value |-> <<"Bearer ", DEEPSEEK_KEY>>]}
        /\ \A h \in headers :
             Lower(h.name) \notin {"host", "content-length", "content-encoding"}
        /\ \A h \in req_headers :
             Lower(h.name) \notin {"host", "content-length", "content-encoding",
                                   "authorization"} =>
                 \E o \in headers : Lower(o.name) = Lower(h.name) /\ o.value = h.value

\* A request with a lower-case authorization header and one more header
\* has been forwarded.
C5_Witness ==
    /\ calls = 1
    /\ \E h \in req_headers : h.name = "authorization"
    /\ \E h \in req_headers : h.name = "User-Agent"

\* C8: for a body that parses to a dict, the body sent upstream holds every
\* default parameter with its configured value whatever the inbound body
\* held, injecting the defaults again changes nothing, and no other key is
\* touched by the injection; for a body that parses to a list, no default
\* parameter is added to it.
C8_DefaultsSent ==
    (calls = 1 /\ Loads(data)[1] = "ok") =>
        LET v == Loads(data)[2]
            b == sent[2]
        IN  /\ IsDict(v) =>
                 /\ sent[1] = "json" /\ IsDict(b)
                 /\ HoldsDefaults(b)
                 /\ inject_defaults(b) = b
                 /\ DelAll(b, DefaultKeys) =
                      DelAll(flatten_message_content_in_messages(
                                 remove_empty_tools_in_obj(v)[1])[1], DefaultKeys)
            /\ IsList(v) =>
                 /\ sent[1] = "json" /\ IsList(b)
                 /\ Len(b[2]) = Len(v[2])
                 /\ \A i \in 1..Len(v[2]) : \A k \in DefaultKeys :
                      IsDict(v[2][i]) =>
                          /\ IsDict(b[2][i])
                          /\ Has(b[2][i], k) <=> Has(v[2][i], k)
                          /\ Has(v[2][i], k) => Get(b[2][i], k) = Get(v[2][i], k)

\* A body that held its own temperature has been sent upstream.
C8_Witness ==
    /\ calls = 1
    /\ Loads(data)[1] = "ok"
    /\ IsDict(Loads(data)[2])
    /\ Has(Loads(data)[2], "temperature")
    /\ Get(Loads(data)[2], "temperature") = Num("0.2")

====
